---- MODULE Spec2Model ----
(***************************************************************************)
(* Model of the two GitHub tools of job-mastra-report:                     *)
(*   src/mastra/tools/github/github-auth-tool.ts                           *)
(*       githubAuthTool.execute and getGitHubToken                         *)
(*   src/mastra/tools/github/fetch-pr-tool.ts                              *)
(*       fetchPrTool.execute                                               *)
(*                                                                         *)
(* Strings the code inspects (command output, the environment variable,    *)
(* tokens, user names, scopes) are sequences of one-character strings, so  *)
(* that trim(), the two regular expressions and split(', ') are computed   *)
(* character by character.  Error messages are sequences of the string     *)
(* pieces the code concatenates.  The GraphQL query text is opaque to      *)
(* every branch of the code and is not modelled.                           *)
(*                                                                         *)
(* One invocation runs at a time: invocations share no state.              *)
(***************************************************************************)
EXTENDS Integers, Sequences, FiniteSets, TLC

VARIABLES
    pc,           \* position of the running invocation
    op,           \* which operation is running
    cli,          \* outcome of `gh auth token` in this invocation
    env,          \* process.env.GITHUB_TOKEN in this invocation
    requireToken, \* context.requireToken of githubAuthTool.execute
    status,       \* outcome of `gh auth status`, when it was run
    cred,         \* settlement of githubAuthTool.execute
    tokRes,       \* settlement of getGitHubToken
    request,      \* the HTTP request fetchPrTool.execute sent
    netCalls,     \* number of calls of fetch() in this invocation
    response,     \* settlement of fetch()
    body,         \* settlement of response.json()
    fetchRes,     \* settlement of fetchPrTool.execute
    events        \* the invocation's events, in order

vars == <<pc, op, cli, env, requireToken, status, cred, tokRes, request,
          netCalls, response, body, fetchRes, events>>

----------------------------------------------------------------------------
(* Bounds of the model *)

\* longest output of `gh auth token`, in characters
MaxOut == 2
\* most fragments a `gh auth status` output is made of
MaxFragments == 2
\* most pull request nodes in a response
MaxNodes == 3
\* largest issueCount a response reports
MaxIssueCount == 3

----------------------------------------------------------------------------
(* Strings *)

Empty == <<>>

Min(S) == CHOOSE x \in S : \A y \in S : x <= y

SeqsUpTo(S, n) == UNION {[1..k -> S] : k \in 0..n}

RECURSIVE Concat(_)
Concat(ss) == IF ss = <<>> THEN <<>> ELSE Head(ss) \o Concat(Tail(ss))

\* the white space String.prototype.trim removes, among the characters used
WhiteSpace == {" ", "\n", "\t", "\r"}

\* \w of a JavaScript regular expression
WordChars ==
    {"a","b","c","d","e","f","g","h","i","j","k","l","m",
     "n","o","p","q","r","s","t","u","v","w","x","y","z",
     "A","B","C","D","E","F","G","H","I","J","K","L","M",
     "N","O","P","Q","R","S","T","U","V","W","X","Y","Z",
     "0","1","2","3","4","5","6","7","8","9","_"}

RECURSIVE TrimStart(_)
TrimStart(s) ==
    IF s # <<>> /\ Head(s) \in WhiteSpace THEN TrimStart(Tail(s)) ELSE s

RECURSIVE TrimEnd(_)
TrimEnd(s) ==
    IF s # <<>> /\ s[Len(s)] \in WhiteSpace
    THEN TrimEnd(SubSeq(s, 1, Len(s) - 1))
    ELSE s

\* String.prototype.trim
Trim(s) == TrimEnd(TrimStart(s))

\* the literal lit occurs in s at position i
StartsWithAt(s, i, lit) ==
    /\ i >= 1
    /\ i + Len(lit) - 1 <= Len(s)
    /\ SubSeq(s, i, i + Len(lit) - 1) = lit

\* length of the longest run of \w characters of s that starts at i
RECURSIVE WordRun(_, _)
WordRun(s, i) ==
    IF i <= Len(s) /\ s[i] \in WordChars THEN 1 + WordRun(s, i + 1) ELSE 0

\* length of the longest run of [^'] characters of s that starts at i
RECURSIVE NonQuoteRun(_, _)
NonQuoteRun(s, i) ==
    IF i <= Len(s) /\ s[i] # "'" THEN 1 + NonQuoteRun(s, i + 1) ELSE 0

AccountLit == <<"a","c","c","o","u","n","t"," ">>

ScopesLit == <<"T","o","k","e","n"," ","s","c","o","p","e","s",":"," ","'">>

ScopeSeparator == <<",", " ">>

Unknown == <<"u","n","k","n","o","w","n">>

\* statusOutput.match(/account (\w+)/): the capture of the leftmost match,
\* <<>> (username keeps its initial '') when there is none
MatchUsername(s) ==
    LET from(i) == i + Len(AccountLit)
        starts == {i \in 1..Len(s) :
                     StartsWithAt(s, i, AccountLit) /\ WordRun(s, from(i)) > 0}
    IN  IF starts = {} THEN Empty
        ELSE LET i == Min(starts)
             IN  SubSeq(s, from(i), from(i) + WordRun(s, from(i)) - 1)

\* String.prototype.split(', ')
RECURSIVE Split(_)
Split(s) ==
    LET at == {i \in 1..Len(s) : StartsWithAt(s, i, ScopeSeparator)}
    IN  IF at = {} THEN <<s>>
        ELSE LET i == Min(at)
             IN  <<SubSeq(s, 1, i - 1)>>
                 \o Split(SubSeq(s, i + Len(ScopeSeparator), Len(s)))

\* statusOutput.match(/Token scopes: '([^']+)'/) and the split of its
\* capture; <<>> (scopes keeps its initial []) when there is no match
MatchScopes(s) ==
    LET from(i) == i + Len(ScopesLit)
        starts == {i \in 1..Len(s) :
                     /\ StartsWithAt(s, i, ScopesLit)
                     /\ NonQuoteRun(s, from(i)) > 0
                     /\ from(i) + NonQuoteRun(s, from(i)) <= Len(s)}
    IN  IF starts = {} THEN <<>>
        ELSE LET i == Min(starts)
             IN  Split(SubSeq(s, from(i),
                              from(i) + NonQuoteRun(s, from(i)) - 1))

----------------------------------------------------------------------------
(* What the environment can hand to one invocation *)

OutChars == {" ", "\n", "t"}

\* execSync('gh auth token'): it throws (ok = FALSE), or returns the output
CliOutcomes ==
    {[ok |-> FALSE, out |-> Empty]}
    \cup {[ok |-> TRUE, out |-> o] : o \in SeqsUpTo(OutChars, MaxOut)}

EnvTok == <<"e","n","v","t","o","k">>

\* process.env.GITHUB_TOKEN: undefined, '' or a value
EnvValues ==
    {[set |-> FALSE, val |-> Empty],
     [set |-> TRUE, val |-> Empty],
     [set |-> TRUE, val |-> EnvTok]}

\* context.requireToken
RequireTokenInputs == {"undefined", "true", "false"}

StatusFragments ==
    {<<"a","c","c","o","u","n","t"," ","a","l">>,
     <<"a","c","c","o","u","n","t"," ","-">>,
     ScopesLit \o <<"r","e","p","o",","," ","r","e","a","d",":","o","r","g","'">>,
     ScopesLit \o <<"'">>,
     ScopesLit \o <<"r","e","p","o">>,
     <<"\n">>}

StatusOutputs == {Concat(fs) : fs \in SeqsUpTo(StatusFragments, MaxFragments)}

StatusNotRun == [run |-> FALSE, ok |-> FALSE, out |-> Empty]

\* execSync('gh auth status'): it throws (ok = FALSE), or returns the output
StatusOutcomes ==
    {[run |-> TRUE, ok |-> FALSE, out |-> Empty]}
    \cup {[run |-> TRUE, ok |-> TRUE, out |-> o] : o \in StatusOutputs}

----------------------------------------------------------------------------
(* github-auth-tool.ts *)

NoTokenMessage ==
    <<"No GitHub token found. Please either:\n",
      "1. Login with GitHub CLI: gh auth login (recommended), or\n",
      "2. Set GITHUB_TOKEN environment variable">>

NoCred ==
    [kind |-> "none", token |-> Empty, username |-> Empty, scopes |-> <<>>,
     source |-> "none", message |-> <<>>]

Returned(token, username, scopes, source) ==
    [kind |-> "return", token |-> token, username |-> username,
     scopes |-> scopes, source |-> source, message |-> <<>>]

Thrown(message) ==
    [kind |-> "throw", token |-> Empty, username |-> Empty, scopes |-> <<>>,
     source |-> "none", message |-> message]

\* const { requireToken = true } = context
RequireTokenOf(r) == IF r = "undefined" THEN TRUE ELSE r = "true"

\* process.env.GITHUB_TOKEN || ''
EnvOrEmpty(e) == IF e.set THEN e.val ELSE Empty

\* the token and its source after the first try/catch; found = FALSE is
\* the branch in which neither the CLI nor the environment gave a token
TokenStep(c, e) ==
    IF c.ok
    THEN [found |-> TRUE, token |-> Trim(c.out), source |-> "github-cli"]
    ELSE IF EnvOrEmpty(e) # Empty
         THEN [found |-> TRUE, token |-> EnvOrEmpty(e),
               source |-> "environment"]
         ELSE [found |-> FALSE, token |-> Empty, source |-> "github-cli"]

NoTokenOutcomeIgnoringRequire(req) ==
    Returned(Empty, Empty, <<>>, "github-cli")

\* no token found: throw if requireToken, else the empty credential
NoTokenOutcome(req) ==
    IF req
    THEN Thrown(NoTokenMessage)
    ELSE Returned(Empty, Empty, <<>>, "github-cli")

CliUserInfoEmptyScope(st) ==
    IF st.ok
    THEN [username |-> MatchUsername(st.out),
          scopes |-> IF MatchScopes(st.out) = <<>> THEN <<Empty>>
                     ELSE MatchScopes(st.out)]
    ELSE [username |-> Empty, scopes |-> <<Empty>>]

\* username and scopes from `gh auth status`; the catch keeps both initial
\* values when the command throws
CliUserInfo(st) ==
    IF st.ok
    THEN [username |-> MatchUsername(st.out), scopes |-> MatchScopes(st.out)]
    ELSE [username |-> Empty, scopes |-> <<>>]

EnvUserInfoFromStatus == [username |-> Empty, scopes |-> <<>>]

\* username and scopes of a token that came from the environment
EnvUserInfo == [username |-> Unknown, scopes |-> <<Unknown>>]

\* githubAuthTool.execute, st being what `gh auth status` does if it is run
AuthExecute(r, c, e, st) ==
    LET t == TokenStep(c, e)
        info == IF t.source = "github-cli" THEN CliUserInfo(st)
                ELSE EnvUserInfo
    IN  IF ~t.found
        THEN [statusRun |-> FALSE, cred |-> NoTokenOutcome(RequireTokenOf(r))]
        ELSE [statusRun |-> t.source = "github-cli",
              cred |-> Returned(t.token, info.username, info.scopes,
                                t.source)]

NoTok == [kind |-> "none", token |-> Empty, message |-> <<>>]

\* getGitHubToken
GetGitHubToken(c, e) ==
    IF c.ok
    THEN [kind |-> "return", token |-> Trim(c.out), message |-> <<>>]
    ELSE IF EnvOrEmpty(e) # Empty
         THEN [kind |-> "return", token |-> EnvOrEmpty(e), message |-> <<>>]
         ELSE [kind |-> "throw", token |-> Empty, message |-> NoTokenMessage]

----------------------------------------------------------------------------
(* fetch-pr-tool.ts *)

\* the pull request records a response can hold
PullRequests ==
    {[title |-> "Fix login", url |-> "https://github.com/o/a/pull/1",
      mergedAt |-> "2025-01-02T00:00:00Z", repository |-> [name |-> "a"]],
     [title |-> "Add report", url |-> "https://github.com/o/b/pull/2",
      mergedAt |-> "2025-01-03T00:00:00Z", repository |-> [name |-> "b"]]}

NoResponse ==
    [settled |-> FALSE, rejected |-> FALSE, status |-> 0, statusText |-> ""]

\* fetch(): it rejects (no response), or resolves with a response
FetchOutcomes ==
    {[settled |-> TRUE, rejected |-> TRUE, status |-> 0, statusText |-> ""]}
    \cup {[settled |-> TRUE, rejected |-> FALSE, status |-> r[1],
           statusText |-> r[2]] :
            r \in {<<200, "OK">>, <<299, "">>, <<300, "Multiple Choices">>,
                   <<401, "Unauthorized">>, <<500, "Internal Server Error">>,
                   <<503, "">>}}

NoBody ==
    [called |-> FALSE, settled |-> FALSE, parsed |-> FALSE, data |-> "absent",
     search |-> "absent", hasNodes |-> FALSE, nodes |-> <<>>, issueCount |-> 0]

JsonBody(data, search, hasNodes, nodes, issueCount) ==
    [called |-> TRUE, settled |-> TRUE, parsed |-> TRUE, data |-> data,
     search |-> search, hasNodes |-> hasNodes, nodes |-> nodes,
     issueCount |-> issueCount]

\* response.json(): it rejects (the body is no JSON), or resolves with an
\* object whose data and data.search are absent, null or objects
JsonOutcomes ==
    {[NoBody EXCEPT !.called = TRUE, !.settled = TRUE]}
    \cup {JsonBody(d, "absent", FALSE, <<>>, 0) : d \in {"absent", "null"}}
    \cup {JsonBody("object", s, FALSE, <<>>, 0) : s \in {"absent", "null"}}
    \cup {JsonBody("object", "object", FALSE, <<>>, n) :
            n \in 0..MaxIssueCount}
    \cup {JsonBody("object", "object", TRUE, ns[1], ns[2]) :
            ns \in SeqsUpTo(PullRequests, MaxNodes) \X (0..MaxIssueCount)}

NoRequest == [sent |-> FALSE, authorization |-> Empty]

NoFetchRes ==
    [kind |-> "none", pullRequests |-> <<>>, totalCount |-> 0,
     message |-> <<>>]

FetchReturned(r) ==
    [kind |-> "return", pullRequests |-> r.pullRequests,
     totalCount |-> r.totalCount, message |-> <<>>]

FetchThrown(message) ==
    [kind |-> "throw", pullRequests |-> <<>>, totalCount |-> 0,
     message |-> message]

BearerLit == <<"B","e","a","r","e","r"," ">>

AuthorizationHeaderWithoutToken(token) == BearerLit

\* Authorization: `Bearer ${githubToken}`
AuthorizationHeader(token) == BearerLit \o token

CallFetchWithRetry(n) == n + 2

\* one call of fetch()
CallFetch(n) == n + 1

ResponseOkBelow400(st) == st >= 200 /\ st <= 399

\* response.ok
ResponseOk(st) == st >= 200 /\ st <= 299

\* message of the error thrown for a response that is not ok
RequestFailedMessage(r) ==
    <<"GitHub API request failed: ", ToString(r.status), " ", r.statusText>>

InvalidStructureMessage == <<"Invalid response structure from GitHub API">>

\* messages of the errors the platform raises inside the try block
FetchFailedMessage == <<"fetch failed">>
JsonSyntaxMessage == <<"Unexpected token in JSON">>
NoLengthMessage == <<"Cannot read properties of undefined (reading 'length')">>

FetchErrorPrefix == "Failed to fetch pull requests: "

\* the catch block: every error of the try block is thrown again, wrapped
WrapError(isError, message) ==
    <<FetchErrorPrefix>> \o (IF isError THEN message ELSE <<"Unknown error">>)

InvalidStructureDataOnly(b) == b.data # "object"

\* !data.data || !data.data.search
InvalidStructure(b) == b.data # "object" \/ b.search # "object"

SearchResultIssueCount(b) ==
    [pullRequests |-> b.nodes, totalCount |-> b.issueCount]

\* { pullRequests, totalCount: pullRequests.length }
SearchResult(b) == [pullRequests |-> b.nodes, totalCount |-> Len(b.nodes)]

\* the code that runs once fetch() has settled, up to `await response.json()`
AfterFetch(r) ==
    IF r.rejected
    THEN [next |-> "done", res |-> FetchThrown(WrapError(TRUE, FetchFailedMessage))]
    ELSE IF ~ResponseOk(r.status)
         THEN [next |-> "done",
               res |-> FetchThrown(WrapError(TRUE, RequestFailedMessage(r)))]
         ELSE [next |-> "awaitJson", res |-> NoFetchRes]

\* the code that runs once response.json() has settled
AfterJson(b) ==
    IF ~b.parsed THEN FetchThrown(WrapError(TRUE, JsonSyntaxMessage))
    ELSE IF InvalidStructure(b)
         THEN FetchThrown(WrapError(TRUE, InvalidStructureMessage))
         ELSE IF ~b.hasNodes
              THEN FetchThrown(WrapError(TRUE, NoLengthMessage))
              ELSE FetchReturned(SearchResult(b))

----------------------------------------------------------------------------
(* The state machine *)

Init ==
    /\ pc = "idle"
    /\ op = "none"
    /\ cli = [ok |-> FALSE, out |-> Empty]
    /\ env = [set |-> FALSE, val |-> Empty]
    /\ requireToken = "undefined"
    /\ status = StatusNotRun
    /\ cred = NoCred
    /\ tokRes = NoTok
    /\ request = NoRequest
    /\ netCalls = 0
    /\ response = NoResponse
    /\ body = NoBody
    /\ fetchRes = NoFetchRes
    /\ events = <<>>

\* githubAuthTool.execute: it has no await, so it runs in one step
githubAuthTool_execute ==
    /\ pc = "idle"
    /\ \E r \in RequireTokenInputs, c \in CliOutcomes, e \in EnvValues,
          st \in StatusOutcomes :
          LET out == AuthExecute(r, c, e, st)
          IN  /\ requireToken' = r
              /\ cli' = c
              /\ env' = e
              /\ status' = IF out.statusRun THEN st ELSE StatusNotRun
              /\ cred' = out.cred
    /\ op' = "githubAuthTool"
    /\ pc' = "done"
    /\ events' = <<"settled">>
    /\ UNCHANGED <<tokRes, request, netCalls, response, body, fetchRes>>

\* getGitHubToken called on its own
getGitHubToken_call ==
    /\ pc = "idle"
    /\ \E c \in CliOutcomes, e \in EnvValues :
          /\ cli' = c
          /\ env' = e
          /\ tokRes' = GetGitHubToken(c, e)
    /\ op' = "getGitHubToken"
    /\ pc' = "done"
    /\ events' = <<"settled">>
    /\ UNCHANGED <<requireToken, status, cred, request, netCalls, response,
                   body, fetchRes>>

\* fetchPrTool.execute up to `await getGitHubToken()`: the callee has run
\* and its promise is settled
fetchPrTool_execute ==
    /\ pc = "idle"
    /\ \E c \in CliOutcomes, e \in EnvValues :
          /\ cli' = c
          /\ env' = e
          /\ tokRes' = GetGitHubToken(c, e)
    /\ op' = "fetchPrTool"
    /\ pc' = "awaitToken"
    /\ events' = <<"resolveStart">>
    /\ UNCHANGED <<requireToken, status, cred, request, netCalls, response,
                   body, fetchRes>>

\* the await of getGitHubToken() resumes: a rejection leaves execute as it
\* is (the call is outside the try block); else the request is sent
ResumeAfterToken ==
    /\ pc = "awaitToken"
    /\ IF tokRes.kind = "throw"
       THEN /\ fetchRes' = FetchThrown(tokRes.message)
            /\ pc' = "done"
            /\ events' = events \o <<"resolveFailed", "settled">>
            /\ UNCHANGED <<request, netCalls>>
       ELSE /\ request' = [sent |-> TRUE,
                           authorization |-> AuthorizationHeader(tokRes.token)]
            /\ netCalls' = CallFetch(netCalls)
            /\ pc' = "awaitFetch"
            /\ events' = events \o <<"resolveEnd", "fetchStart">>
            /\ UNCHANGED fetchRes
    /\ UNCHANGED <<op, cli, env, requireToken, status, cred, tokRes, response,
                   body>>

\* the await of fetch() resumes
ResumeAfterFetch ==
    /\ pc = "awaitFetch"
    /\ \E r \in FetchOutcomes :
          /\ response' = r
          /\ pc' = AfterFetch(r).next
          /\ fetchRes' = AfterFetch(r).res
          /\ body' = IF AfterFetch(r).next = "awaitJson"
                     THEN [NoBody EXCEPT !.called = TRUE]
                     ELSE body
          /\ events' = events \o
                IF AfterFetch(r).next = "awaitJson"
                THEN <<"fetchEnd", "jsonStart">>
                ELSE <<"fetchEnd", "settled">>
    /\ UNCHANGED <<op, cli, env, requireToken, status, cred, tokRes, request,
                   netCalls>>

\* the await of response.json() resumes
ResumeAfterJson ==
    /\ pc = "awaitJson"
    /\ \E b \in JsonOutcomes :
          /\ body' = b
          /\ fetchRes' = AfterJson(b)
    /\ pc' = "done"
    /\ events' = events \o <<"jsonEnd", "settled">>
    /\ UNCHANGED <<op, cli, env, requireToken, status, cred, tokRes, request,
                   netCalls, response>>

\* the invocation is over; the next one starts from nothing
Finish ==
    /\ pc = "done"
    /\ pc' = "idle"
    /\ op' = "none"
    /\ cli' = [ok |-> FALSE, out |-> Empty]
    /\ env' = [set |-> FALSE, val |-> Empty]
    /\ requireToken' = "undefined"
    /\ status' = StatusNotRun
    /\ cred' = NoCred
    /\ tokRes' = NoTok
    /\ request' = NoRequest
    /\ netCalls' = 0
    /\ response' = NoResponse
    /\ body' = NoBody
    /\ fetchRes' = NoFetchRes
    /\ events' = <<>>

Next ==
    \/ githubAuthTool_execute
    \/ getGitHubToken_call
    \/ fetchPrTool_execute
    \/ ResumeAfterToken
    \/ ResumeAfterFetch
    \/ ResumeAfterJson
    \/ Finish

Spec == Init /\ [][Next]_vars

----------------------------------------------------------------------------
(* Properties *)

Range(s) == {s[i] : i \in DOMAIN s}

\* position of event e in the invocation's events, 0 when it has not happened
Pos(e) ==
    IF e \in Range(events) THEN Min({i \in DOMAIN events : events[i] = e})
    ELSE 0

AuthDone == op = "githubAuthTool" /\ pc = "done"

NoEnvToken == ~env.set \/ env.val = Empty

Is2xx(st) == st \in 200..299

\* some substring of s matches /account (\w+)/
HasAccountMatch(s) ==
    \E i \in 1..Len(s) :
        /\ i + 8 <= Len(s)
        /\ \A k \in 0..7 : s[i + k] = AccountLit[k + 1]
        /\ s[i + 8] \in WordChars

\* some substring of s matches /Token scopes: '([^']+)'/
HasScopesMatch(s) ==
    \E i \in 1..Len(s) :
        /\ i + 16 <= Len(s)
        /\ \A k \in 0..14 : s[i + k] = ScopesLit[k + 1]
        /\ \E j \in (i + 16)..Len(s) :
               /\ \A k \in (i + 15)..(j - 1) : s[k] # "'"
               /\ s[j] = "'"

\* C1: when the CLI token command fails and GITHUB_TOKEN is unset or empty,
\* githubAuthTool.execute throws the error that names both remediation
\* paths if requireToken is true, and returns the all-empty credential with
\* source github-cli if it is false; the status command is not run.
C1_NoTokenOutcome ==
    (AuthDone /\ ~cli.ok /\ NoEnvToken) =>
        /\ ~status.run
        /\ IF requireToken # "false"
           THEN /\ cred.kind = "throw"
                /\ "1. Login with GitHub CLI: gh auth login (recommended), or\n"
                       \in Range(cred.message)
                /\ "2. Set GITHUB_TOKEN environment variable"
                       \in Range(cred.message)
           ELSE cred = [kind |-> "return", token |-> <<>>, username |-> <<>>,
                        scopes |-> <<>>, source |-> "github-cli",
                        message |-> <<>>]

C1_Witness ==
    /\ AuthDone /\ ~cli.ok /\ env.set /\ env.val = Empty
    /\ requireToken = "true"
    /\ cred.kind = "throw"

\* C2: in both resolver variants a CLI token command that succeeds with an
\* empty trimmed output counts as failed: a token with source github-cli is
\* returned only when the CLI output is non-empty, the environment variable
\* decides the outcome otherwise, and no resolution with a mandatory token
\* returns an empty token.
C2_EmptyCliOutputCountsAsFailed ==
    /\ (op = "getGitHubToken" /\ pc = "done" /\ tokRes.kind = "return")
          => tokRes.token # Empty
    /\ (op = "getGitHubToken" /\ pc = "done" /\ cli.ok
          /\ Trim(cli.out) = Empty /\ ~NoEnvToken)
          => tokRes.token = env.val
    /\ (AuthDone /\ requireToken # "false" /\ cred.kind = "return")
          => cred.token # Empty
    /\ (AuthDone /\ cli.ok /\ Trim(cli.out) = Empty /\ ~NoEnvToken)
          => (cred.token = env.val /\ cred.source = "environment")

\* C3: every failure of fetchPrTool.execute, a failure of token resolution
\* included, reaches the caller as the wrapper error: its message is the
\* prefix 'Failed to fetch pull requests: ' followed by the cause's message.
C3_EveryFailureIsWrapped ==
    (op = "fetchPrTool" /\ pc = "done" /\ fetchRes.kind = "throw") =>
        /\ Len(fetchRes.message) > 1
        /\ Head(fetchRes.message) = "Failed to fetch pull requests: "
        /\ (tokRes.kind = "throw"
               => Tail(fetchRes.message) = tokRes.message)

\* C4 as stated: every invocation of fetchPrTool.execute performs exactly
\* one network call, whatever the outcome of token resolution.
C4_ExactlyOneCallAlways ==
    (op = "fetchPrTool" /\ pc = "done") => netCalls = 1

\* C4 as amended: an invocation of fetchPrTool.execute performs at most one
\* network call; once it is over it has performed exactly one if token
\* resolution succeeded (whatever the HTTP status or the response shape)
\* and none if token resolution failed.
C4_OneCallIffTokenResolved ==
    /\ netCalls <= 1
    /\ (op = "fetchPrTool" /\ pc = "done") =>
          netCalls = (IF cli.ok \/ ~NoEnvToken THEN 1 ELSE 0)

C4_Witness ==
    /\ op = "fetchPrTool" /\ pc = "done"
    /\ ~cli.ok /\ NoEnvToken
    /\ netCalls = 0
    /\ fetchRes.kind = "throw"

\* C5: when token resolution succeeds and the response is 2xx with
\* data.search.nodes present, fetchPrTool.execute returns the response's
\* nodes, same elements in the same order, and totalCount is their number,
\* whatever issueCount the server reports.
C5_NodesVerbatim ==
    (/\ op = "fetchPrTool" /\ pc = "done"
     /\ tokRes.kind = "return"
     /\ response.settled /\ ~response.rejected /\ Is2xx(response.status)
     /\ body.parsed /\ body.data = "object" /\ body.search = "object"
     /\ body.hasNodes)
    => /\ fetchRes.kind = "return"
       /\ fetchRes.pullRequests = body.nodes
       /\ fetchRes.totalCount = Len(body.nodes)

C5_Witness ==
    /\ op = "fetchPrTool" /\ pc = "done"
    /\ body.hasNodes /\ Len(body.nodes) = 3
    /\ body.nodes[1] # body.nodes[2]
    /\ body.issueCount # 3
    /\ fetchRes.kind = "return"
    /\ fetchRes.totalCount = 3

\* C6: when the CLI token command fails and GITHUB_TOKEN holds a non-empty
\* value v, githubAuthTool.execute returns token v, source environment,
\* username 'unknown' and scopes ['unknown'], for every requireToken, and
\* does not run the status command.
C6_EnvironmentCredential ==
    (AuthDone /\ ~cli.ok /\ env.set /\ env.val # Empty) =>
        /\ cred = [kind |-> "return", token |-> env.val,
                   username |-> <<"u","n","k","n","o","w","n">>,
                   scopes |-> << <<"u","n","k","n","o","w","n">> >>,
                   source |-> "environment", message |-> <<>>]
        /\ ~status.run

C6_Witness ==
    /\ AuthDone /\ ~cli.ok /\ env.val = EnvTok
    /\ requireToken = "false"
    /\ cred.kind = "return" /\ cred.source = "environment"

\* C7: when the response status is outside 2xx, fetchPrTool.execute fails
\* with an error whose message holds the status code and the status text,
\* and the response body is not parsed.
C7_NonSuccessStatusFails ==
    (/\ op = "fetchPrTool"
     /\ response.settled /\ ~response.rejected /\ ~Is2xx(response.status))
    => /\ pc = "done"
       /\ fetchRes.kind = "throw"
       /\ ToString(response.status) \in Range(fetchRes.message)
       /\ response.statusText \in Range(fetchRes.message)
       /\ ~body.called

C7_Witness ==
    /\ op = "fetchPrTool" /\ pc = "done"
    /\ response.settled /\ response.status = 401
    /\ fetchRes.kind = "throw"
    /\ "401" \in Range(fetchRes.message)

\* C8: when the response is 2xx and its parsed body lacks data or
\* data.search, fetchPrTool.execute fails with an error whose message says
\* the response structure is invalid.
C8_MissingSearchFails ==
    (/\ op = "fetchPrTool"
     /\ body.settled /\ body.parsed
     /\ (body.data # "object" \/ body.search # "object"))
    => /\ pc = "done"
       /\ fetchRes.kind = "throw"
       /\ "Invalid response structure from GitHub API"
              \in Range(fetchRes.message)

C8_Witness ==
    /\ op = "fetchPrTool" /\ pc = "done"
    /\ Is2xx(response.status)
    /\ body.parsed /\ body.data = "object" /\ body.search = "absent"
    /\ fetchRes.kind = "throw"

\* C9: in githubAuthTool.execute with source github-cli a failure of the
\* status step never fails the resolution: the call returns the token of
\* step 1 with source github-cli, username is '' if the status command
\* throws or its output has no match of the account pattern, and scopes is
\* [] if it throws or its output has no match of the scopes pattern.
C9_StatusFailureIsNotFatal ==
    (AuthDone /\ cli.ok) =>
        /\ status.run
        /\ cred.kind = "return"
        /\ cred.source = "github-cli"
        /\ cred.token = Trim(cli.out)
        /\ (~status.ok \/ ~HasAccountMatch(status.out))
              => cred.username = <<>>
        /\ (~status.ok \/ ~HasScopesMatch(status.out))
              => cred.scopes = <<>>

C9_Witness ==
    /\ AuthDone /\ cli.ok /\ Trim(cli.out) # Empty
    /\ status.run /\ ~status.ok
    /\ cred.kind = "return" /\ cred.token = Trim(cli.out)
    /\ cred.username = <<>> /\ cred.scopes = <<>>

\* C10: within one invocation of fetchPrTool.execute token resolution ends
\* before the network call starts, the request carries the resolved token
\* as its Bearer credential, the network call is never started while
\* resolution is pending or after it failed, and once a network call was
\* started the caller is answered only after it has completed.
C10_ResolutionThenCallThenAnswer ==
    op = "fetchPrTool" =>
        /\ (pc = "awaitToken" => (~request.sent /\ netCalls = 0))
        /\ (~(cli.ok \/ ~NoEnvToken) => (~request.sent /\ netCalls = 0
                                           /\ Pos("fetchStart") = 0))
        /\ request.sent =>
              /\ 0 < Pos("resolveEnd")
              /\ Pos("resolveEnd") < Pos("fetchStart")
              /\ request.authorization =
                    <<"B","e","a","r","e","r"," ">>
                    \o (IF cli.ok THEN Trim(cli.out) ELSE env.val)
        /\ (request.sent /\ fetchRes.kind # "none") =>
              /\ response.settled
              /\ Pos("fetchStart") < Pos("fetchEnd")
              /\ Pos("fetchEnd") < Pos("settled")
        /\ (fetchRes.kind # "none") = (Pos("settled") > 0)

C10_Witness ==
    /\ op = "fetchPrTool" /\ pc = "done"
    /\ ~cli.ok /\ env.val = EnvTok
    /\ request.sent /\ request.authorization = BearerLit \o EnvTok
    /\ fetchRes.kind = "return"
    /\ events = <<"resolveStart", "resolveEnd", "fetchStart", "fetchEnd",
                  "jsonStart", "jsonEnd", "settled">>

====
